---- MODULE Spec2Model ----
(***************************************************************************)
(* Grid update engine of the predator / herbivore / plant simulation:      *)
(* GOLGrid.update(), the per-species update pass, the entity update rules  *)
(* (Plant, Herbivore, Predator, Omnivore), the movement rule of            *)
(* MobileEntity and the random spawn.                                      *)
(*                                                                         *)
(* A tick (one call of GOLGrid.update) is a sequence of steps: for each    *)
(* species of order_to_process the pass collects its entities and then     *)
(* runs one turn per collected entity; after the last pass every entry of  *)
(* random_spawn_config runs one spawn trial.  An exception raised by the   *)
(* code ends the run in pc = "error".                                      *)
(***************************************************************************)
EXTENDS Integers, Sequences, FiniteSets, TLC

\* ---------------------------------------------------------------- bounds
MaxPlaced == 3     \* entities an initial_state places on a grid of several cells
MaxInit == 4       \* entities an initial_state places on the one-cell grid
MaxTtl == 3        \* configured lifespans: None, 0..MaxTtl
MaxSteps == 2      \* simulation.steps of the one-cell configurations
DrawLevels == 4    \* random.random() returns r / DrawLevels, r in 0..DrawLevels-1
MaxCooldown == 2   \* configured T_cooldown_*: 0..MaxCooldown
MaxCalls == 1      \* direct calls of add_entity_in_range on a constructed grid
MaxRange == 1      \* range_distance of a direct call: 0..MaxRange

\* ------------------------------------------------------- program values
\* Optional[int] = None of the ttl / lifespan parameters (never a reachable
\* counter value: counters stay >= 0)
None == -1000

Species == {"Plant", "Herbivore", "Predator", "Omnivore"}

\* coordinates returned with "do not keep" and by a failed search
NoCell == <<-1, -1>>

Max(a, b) == IF a >= b THEN a ELSE b
Min(a, b) == IF a <= b THEN a ELSE b

\* itertools.product(range(x0, x1), range(y0, y1)) as a list, x outermost
Product(x0, x1, y0, y1) ==
    LET nx == Max(x1 - x0, 0)
        ny == Max(y1 - y0, 0)
    IN  [k \in 1..(nx * ny) |-> <<x0 + ((k - 1) \div ny), y0 + ((k - 1) % ny)>>]

SeqToSet(s) == {s[i] : i \in DOMAIN s}

\* ------------------------------------------------------- configurations
\* A configuration is the content of the YAML file: simulation.width,
\* height, steps, order_to_process, random_spawn_config (in file order),
\* the parameters.* lifespans and cooldowns, and initial_state as the list
\* EntityFactory.create_initial_entities builds (plants, herbivores,
\* predators, omnivores).
MkConfig(w, h, n, ord, sp, pl, th, tp, to, cdh, cdo, ini) ==
    [width |-> w, height |-> h, steps |-> n, order_to_process |-> ord,
     random_spawn_config |-> sp,
     plant_lifespan |-> pl, T_herbivore |-> th, T_predator |-> tp,
     T_omnivore |-> to, T_cooldown_herbivore |-> cdh,
     T_cooldown_omnivore |-> cdo, initial_state |-> ini]

\* order_to_process: food species first, or eaters first
DefaultOrder == <<"Plant", "Herbivore", "Predator", "Omnivore">>
EatersFirst == <<"Omnivore", "Predator", "Herbivore", "Plant">>
Orders == {DefaultOrder, EatersFirst}

Lifespans == {None} \cup (0..MaxTtl)

\* rank of a species in the order create_initial_entities appends them
FactoryRank(t) ==
    CASE t = "Plant" -> 1 [] t = "Herbivore" -> 2
      [] t = "Predator" -> 3 [] t = "Omnivore" -> 4

\* initial_state lists of the generic configurations: up to MaxInit
\* placements on the two corner cells, in factory order
InitCells(w, h) == <<(<<0, 0>>), (<<w - 1, h - 1>>)>>

Placements(w, h) ==
    {<<t, c[1], c[2]>> : t \in Species, c \in SeqToSet(InitCells(w, h))}

PlacementKey(p, w, h) ==
    (FactoryRank(p[1]) * 2) + (IF <<p[2], p[3]>> = InitCells(w, h)[1] THEN 0 ELSE 1)

InitialStates(w, h, m) ==
    UNION {{s \in [1..n -> Placements(w, h)] :
              \A i \in 1..(n - 1) : PlacementKey(s[i], w, h) <= PlacementKey(s[i + 1], w, h)}
           : n \in 0..m}

\* a single cell shared by up to MaxInit entities, every lifespan
SingleCellConfigs ==
    {MkConfig(1, 1, MaxSteps, ord, <<>>, l, l, l, l, 1, 1, ini) :
        ord \in Orders, l \in Lifespans, ini \in InitialStates(1, 1, MaxInit)}

\* one tick on a grid of several cells, square or not (width, height)
GridDims == {<<2, 2>>, <<1, 2>>, <<2, 1>>}

GridConfigs ==
    UNION {{MkConfig(d[1], d[2], 1, ord, <<>>, l, l, l, l, 1, 1, ini) :
               ord \in Orders, l \in {None, MaxTtl},
               ini \in InitialStates(d[1], d[2], MaxPlaced)}
           : d \in GridDims}

GenericConfigs == SingleCellConfigs \cup GridConfigs

\* the 3x3 scenario: a single Plant at (1,1), lifespan l, nothing else
PlantScenario(l) ==
    MkConfig(3, 3, l + 2, DefaultOrder, <<>>, l, l, l, l, 1, 1,
             <<(<<"Plant", 1, 1>>)>>)

\* one random_spawn_config entry; probability is in units of 1 / DrawLevels
SpawnEntry(t, p, b) == [type |-> t, probability |-> p, only_empty_cells |-> b]

\* random spawning: a Plant trial of every probability, then a Herbivore
\* trial of probability 1, on a 2 x 2 grid that is empty or holds one Plant;
\* and a Plant trial alone, with no species pass, on 2 x 2 and 1 x 2 grids
SpawnConfigs ==
    {MkConfig(2, 2, 2, DefaultOrder,
              <<SpawnEntry("Plant", p, b), SpawnEntry("Herbivore", DrawLevels, FALSE)>>,
              MaxTtl, MaxTtl, MaxTtl, MaxTtl, 1, 1, ini) :
        p \in 0..DrawLevels, b \in BOOLEAN,
        ini \in {<<>>, <<(<<"Plant", 0, 0>>)>>}}
    \cup
    {MkConfig(d[1], d[2], 1, <<>>, <<SpawnEntry("Plant", p, b)>>,
              MaxTtl, MaxTtl, MaxTtl, MaxTtl, 1, 1, <<>>) :
        p \in 0..DrawLevels, b \in BOOLEAN, d \in {<<2, 2>>, <<1, 2>>}}
    \cup
    {MkConfig(1, 1, 1, <<>>, <<SpawnEntry("Plant", p, b)>>,
              MaxTtl, MaxTtl, MaxTtl, MaxTtl, 1, 1, ini) :
        p \in 0..DrawLevels, b \in BOOLEAN,
        ini \in {<<>>, <<(<<"Plant", 0, 0>>)>>}}

\* two animals of one species t in the cell (c, c) of an n x n grid, with a
\* Plant in that cell or without, configured cooldown cd (a single tick
\* when cd = 0: the population then grows with every tick)
MatingPair(n, c, ord, t, cd, plant) ==
    MkConfig(n, n, IF cd = 0 THEN 1 ELSE MaxSteps, ord, <<>>,
             MaxTtl, MaxTtl, MaxTtl, MaxTtl, cd, cd,
             (IF plant THEN <<(<<"Plant", c, c>>)>> ELSE <<>>)
                 \o <<(<<t, c, c>>), (<<t, c, c>>)>>)

MatingConfigs ==
    {MatingPair(n, 0, ord, t, cd, plant) :
        n \in {1, 2}, ord \in Orders, t \in {"Herbivore", "Omnivore"},
        cd \in 0..MaxCooldown, plant \in BOOLEAN}
    \cup
    {MkConfig(3, 3, 1, DefaultOrder, <<>>, MaxTtl, MaxTtl, MaxTtl, MaxTtl, cd, cd,
              <<(<<"Plant", 1, 1>>), (<<"Herbivore", 1, 1>>), (<<"Herbivore", 1, 1>>)>>) :
        cd \in 0..MaxCooldown}

\* the 5x5 scenario: one Herbivore at (0,0) with lifespan th (None is the
\* infinite ttl), one Plant at (4,4) that outlives the walk, nothing else
HerbivoreScenario(th) ==
    MkConfig(5, 5, 5, DefaultOrder, <<>>, MaxTtl + 2, th, MaxTtl, MaxTtl, 1, 1,
             <<(<<"Plant", 4, 4>>), (<<"Herbivore", 0, 0>>)>>)

\* two Predators sharing the cell (0,0) of an n x n grid with a Herbivore,
\* and a Predator spawn trial of probability 1 after every tick; two ticks
PredatorConfigs ==
    {MkConfig(n, n, 2, ord, <<SpawnEntry("Predator", DrawLevels, FALSE)>>,
              MaxTtl, MaxTtl, MaxTtl, MaxTtl, 0, 0,
              <<(<<"Herbivore", 0, 0>>), (<<"Predator", 0, 0>>), (<<"Predator", 0, 0>>)>>) :
        n \in {1, 2}, ord \in {EatersFirst}}

\* a Plant and two Herbivores sharing the cell (0,0) of a 2 x 2 grid,
\* eaters first, and a Predator spawn trial of probability 1 after every
\* tick; two ticks
HuntConfigs ==
    {MkConfig(2, 2, 2, EatersFirst, <<SpawnEntry("Predator", DrawLevels, FALSE)>>,
              MaxTtl, MaxTtl, MaxTtl, MaxTtl, 1, 1,
              <<(<<"Plant", 0, 0>>), (<<"Herbivore", 0, 0>>), (<<"Herbivore", 0, 0>>)>>)}

\* the same on a one-cell grid
HuntCellConfigs ==
    {MkConfig(1, 1, 2, EatersFirst, <<SpawnEntry("Predator", DrawLevels, FALSE)>>,
              MaxTtl, MaxTtl, MaxTtl, MaxTtl, 1, 1,
              <<(<<"Plant", 0, 0>>), (<<"Herbivore", 0, 0>>), (<<"Herbivore", 0, 0>>)>>)}

\* a Plant, two Herbivores and a Predator sharing the cell (0,0) of an
\* n x n grid, with the Herbivore pass first; one tick
HerbivoresFirst == <<"Herbivore", "Predator", "Plant">>

CrowdConfigs ==
    {MkConfig(n, n, 1, HerbivoresFirst, <<>>, MaxTtl, MaxTtl, MaxTtl, MaxTtl, 1, 1,
              <<(<<"Plant", 0, 0>>), (<<"Herbivore", 0, 0>>), (<<"Herbivore", 0, 0>>),
                (<<"Predator", 0, 0>>)>>) :
        n \in {1, 2}}

ScenarioConfigs ==
    {PlantScenario(l) : l \in 0..MaxTtl} \cup SpawnConfigs \cup MatingConfigs
        \cup {HerbivoreScenario(th) : th \in {None, MaxTtl + 2}}
        \cup PredatorConfigs \cup HuntConfigs \cup CrowdConfigs

Configs == GenericConfigs \cup ScenarioConfigs

\* ------------------------------------------------------------- the state
VARIABLES
    cfg,        \* the loaded configuration (GOLGrid.config)
    grid,       \* GOLGrid.grid: grid[<<a, b>>] is the Python list grid[a][b]
    ent,        \* the entity objects ever created, by identity (index)
    statistics, \* GOLGrid.statistics: event name -> cumulative counter
    pc,         \* "idle" | "collect" | "turn" | "spawn" | "error"
    err,        \* the exception that ended the run ("" when none)
    tick,       \* completed calls of update()
    passIdx,    \* position of the running pass in order_to_process
    todo,       \* entities_to_update still to be processed, in order
    spawnIdx,   \* position of the running trial in random_spawn_config
    passStart,  \* history: entities of the pass's species at its start
    updated,    \* history: entities whose update() ran in this pass, in order
    lastTurn,   \* history: what the last turn did
    tickStart,  \* history: snapshot taken when the tick began
    call,       \* history: the last call of randomly_add_entity or of a
                \* method called from outside update(), its arguments, its
                \* result and the state it started from
    removed,    \* history: the entities whose update() reported "do not
                \* keep" and the entities that were consumed
    alerts      \* the AlertManager: its registered alerts with their fields,
                \* and how many times check_alerts has run

vars == <<cfg, grid, ent, statistics, pc, err, tick, passIdx, todo, spawnIdx,
          passStart, updated, lastTurn, tickStart, call, removed, alerts>>

\* ---------------------------------------------------------- construction
\* EntityFactory.create_plant / create_herbivore / create_predator /
\* create_omnivore: a new object at (x, y) with the configured lifespan;
\* Herbivore and Omnivore start with mating_cool_down 0
create_entity(c, t, x, y) ==
    LET l == CASE t = "Plant" -> c.plant_lifespan
               [] t = "Herbivore" -> c.T_herbivore
               [] t = "Predator" -> c.T_predator
               [] t = "Omnivore" -> c.T_omnivore
        cd == CASE t = "Herbivore" -> c.T_cooldown_herbivore
                [] t = "Omnivore" -> c.T_cooldown_omnivore
                [] OTHER -> 0
    IN  [type |-> t, x |-> x, y |-> y, ttl |-> l, base_ttl |-> l,
         mating_cool_down |-> 0, base_mating_cool_down |-> cd]

\* init_grid_parameters: [[[] for _ in range(width)] for _ in range(height)]
\* is a list of `height` lists of `width` cells
GridDomain(c) == (0..(c.height - 1)) \X (0..(c.width - 1))

\* grid[a][b] exists (a, b >= 0)
HasCell(c, a, b) == a >= 0 /\ a < c.height /\ b >= 0 /\ b < c.width

\* a Python list of length n takes the indices -n .. n - 1, a negative one
\* counting from the end
ListIndex(i, n) == IF i < 0 THEN i + n ELSE i

\* self.grid[a][b] does not raise IndexError
Indexable(c, a, b) == a >= -c.height /\ a < c.height /\ b >= -c.width /\ b < c.width

\* the cell self.grid[p[1]][p[2]] is
GridCell(c, p) == <<ListIndex(p[1], c.height), ListIndex(p[2], c.width)>>

\* init_grid_state: self.grid[x][y].append(entity) for every initial entity
InitRaises(c) ==
    \E i \in DOMAIN c.initial_state :
        ~Indexable(c, c.initial_state[i][2], c.initial_state[i][3])

InitGrid(c) ==
    [p \in GridDomain(c) |->
        LET idx == SelectSeq([i \in DOMAIN c.initial_state |-> i],
                     LAMBDA i : GridCell(c, <<c.initial_state[i][2],
                                              c.initial_state[i][3]>>) = p)
        IN  idx]

InitEnt(c) ==
    [i \in DOMAIN c.initial_state |->
        create_entity(c, c.initial_state[i][1], c.initial_state[i][2],
                      c.initial_state[i][3])]

\* history of one consumption block: the cell, and the grid, the objects and
\* the counters right before and right after it
NoMeal == [pos |-> NoCell, gridPre |-> <<>>, gridPost |-> <<>>, entPre |-> <<>>,
           entPost |-> <<>>, statPre |-> <<>>, statPost |-> <<>>]

NoTurn == [id |-> 0, popped |-> 0, keep |-> FALSE, pos |-> NoCell,
           ttl0 |-> None, fed |-> FALSE, raised |-> FALSE,
           mate |-> 0, child |-> NoCell, meal |-> NoMeal,
           len0 |-> 0, stat0 |-> <<>>]

Total(g) ==
    LET cells == DOMAIN g
        RECURSIVE Sum(_)
        Sum(S) == IF S = {} THEN 0
                  ELSE LET p == CHOOSE q \in S : TRUE
                       IN  Len(g[p]) + Sum(S \ {p})
    IN  Sum(cells)

Snapshot(g, e) == [total |-> Total(g), ent |-> e, spawns |-> 0,
                   updated |-> <<>>, fed |-> {}, mated |-> {}, eaten |-> {},
                   grid |-> g, stat |-> <<>>]

\* an AlertManager with no alert registered
NoAlerts == [list |-> <<>>, checks |-> 0]

NoCall == [op |-> "none", n |-> 0, type |-> "", args |-> <<>>, ret |-> "",
           cell |-> NoCell, gridPre |-> <<>>, entPre |-> <<>>, statPre |-> <<>>]

\* GOLGrid.__init__ on a configuration whose initial placements the grid
\* can hold
Init ==
    /\ cfg \in {c \in Configs : ~InitRaises(c)}
    /\ grid = InitGrid(cfg)
    /\ ent = InitEnt(cfg)
    /\ statistics = [n \in {} |-> 0]
    /\ pc = "idle"
    /\ err = ""
    /\ tick = 0
    /\ passIdx = 0
    /\ todo = <<>>
    /\ spawnIdx = 0
    /\ passStart = {}
    /\ updated = <<>>
    /\ lastTurn = NoTurn
    /\ tickStart = Snapshot(grid, ent)
    /\ call = NoCall
    /\ removed = {}
    /\ alerts = NoAlerts

\* ------------------------------------------------------- grid primitives
\* validate_coordinates(x, y, grid): len(grid) is the number of rows
\* (height), len(grid[0]) the length of a row (width)
validate_coordinates(x, y) ==
    ~(x < 0 \/ x >= cfg.height \/ y < 0 \/ y >= cfg.width)

\* the neighbourhood without the clipping to the grid and without the
\* validate_coordinates filter
get_all_possible_steps_unclipped(x, y) ==
    Product(x - 1, x + 2, y - 1, y + 2)

\* GOLGrid.get_all_possible_steps
get_all_possible_steps(x, y) ==
    SelectSeq(Product(Max(0, x - 1), Min(cfg.width, x + 2),
                      Max(0, y - 1), Min(cfg.height, y + 2)),
              LAMBDA c : validate_coordinates(c[1], c[2]))

\* product(range(self.width), range(self.height)), the scan order of the
\* grid-wide queries
AllCells == Product(0, cfg.width, 0, cfg.height)

\* a grid-wide scan reads self.grid[x][y] for every (x, y) of AllCells and
\* raises IndexError at the first one the nested list does not hold
ScanRaises == \E i \in DOMAIN AllCells : ~HasCell(cfg, AllCells[i][1], AllCells[i][2])

\* isinstance(entity, object_type) for a species or a collection of species
IsInstance(e, id, types) == e[id].type \in types

\* GOLGrid.is_object_type_in_cell
is_object_type_in_cell(g, e, p, types) ==
    Len(g[p]) > 0 /\ \E i \in DOMAIN g[p] : IsInstance(e, g[p][i], types)

\* GOLGrid.get_all_cells_with_type
get_all_cells_with_type(g, e, types) ==
    SelectSeq(AllCells, LAMBDA p : \E i \in DOMAIN g[p] : IsInstance(e, g[p][i], types))

\* every cell, empty or not
get_all_empty_cells_any(g) == AllCells

\* GOLGrid.get_all_empty_cells
get_all_empty_cells(g) == SelectSeq(AllCells, LAMBDA p : Len(g[p]) = 0)

\* a recording that creates an absent counter at 0 and adds nothing to it
record_stat_blank(st, name, value) ==
    IF name \in DOMAIN st THEN [st EXCEPT ![name] = @ + value]
    ELSE [n \in (DOMAIN st) \cup {name} |-> IF n = name THEN 0 ELSE st[n]]

\* GOLGrid.record_stat
record_stat(st, name, value) ==
    IF name \in DOMAIN st THEN [st EXCEPT ![name] = @ + value]
    ELSE [n \in (DOMAIN st) \cup {name} |-> IF n = name THEN value ELSE st[n]]

\* a pop that leaves the list as it is
Pop_keeps(s, index) == s

\* list.pop(index) for index >= 0: the list without its element at index
Pop(s, index) == [i \in 1..(Len(s) - 1) |-> IF i <= index THEN s[i] ELSE s[i + 1]]

\* a filter that empties the cell
Without_all(e, s, types) == <<>>

\* [obj for obj in cell if not isinstance(obj, food)]
Without(e, s, types) == SelectSeq(s, LAMBDA id : ~IsInstance(e, id, types))

CountOf(e, s, types) == Len(SelectSeq(s, LAMBDA id : IsInstance(e, id, types)))

\* the candidate cells with exclude_center ignored: the centre stays a candidate
possible_cells_with_center(g, cx, cy, range_distance, exclude_center, only_empty_cells) ==
    LET inRange == SelectSeq(Product(Max(0, cx - range_distance),
                                     Min(cfg.width, cx + range_distance + 1),
                                     Max(0, cy - range_distance),
                                     Min(cfg.height, cy + range_distance + 1)),
                             LAMBDA c : validate_coordinates(c[1], c[2]))
    IN  IF only_empty_cells
        THEN SelectSeq(inRange, LAMBDA c : Len(g[c]) = 0)
        ELSE inRange

\* the candidate cells of GOLGrid.add_entity_in_range, in list order
possible_cells(g, cx, cy, range_distance, exclude_center, only_empty_cells) ==
    LET inRange == SelectSeq(Product(Max(0, cx - range_distance),
                                     Min(cfg.width, cx + range_distance + 1),
                                     Max(0, cy - range_distance),
                                     Min(cfg.height, cy + range_distance + 1)),
                             LAMBDA c : validate_coordinates(c[1], c[2]))
        noCenter == IF exclude_center
                    THEN SelectSeq(inRange, LAMBDA c : c # <<cx, cy>>)
                    ELSE inRange
    IN  IF only_empty_cells
        THEN SelectSeq(noCenter, LAMBDA c : Len(g[c]) = 0)
        ELSE noCenter

\* ------------------------------------------------------------- entities
\* removal one tick early: ttl <= 1 in place of ttl <= 0
should_be_removed_early(o) == o.ttl # None /\ o.ttl <= 1

\* Entity.should_be_removed
should_be_removed(o) == o.ttl # None /\ o.ttl <= 0

\* mate-eligibility that ignores the cooldown
can_mate_always(o) == TRUE

\* Herbivore.can_mate / Omnivore.can_mate
can_mate(o) == o.mating_cool_down <= 0

\* squared Euclidean distance: math.sqrt is increasing, so the code's
\* comparisons of distances are comparisons of these
Dist2(a, b) == ((a[1] - b[1]) * (a[1] - b[1])) + ((a[2] - b[2]) * (a[2] - b[2]))

\* the last element of s at minimum distance from p (a choice replaced on
\* a smaller or equal distance)
Closest_last(s, p) ==
    LET k == CHOOSE i \in DOMAIN s :
                 /\ \A j \in DOMAIN s : Dist2(s[j], p) >= Dist2(s[i], p)
                 /\ \A j \in (i + 1)..Len(s) : Dist2(s[j], p) > Dist2(s[i], p)
    IN  s[k]

\* the first element of s at minimum distance from p (the code keeps the
\* first one: it replaces its choice only on a strictly smaller distance)
Closest(s, p) ==
    LET k == CHOOSE i \in DOMAIN s :
                 /\ \A j \in DOMAIN s : Dist2(s[j], p) >= Dist2(s[i], p)
                 /\ \A j \in 1..(i - 1) : Dist2(s[j], p) > Dist2(s[i], p)
    IN  s[k]

\* MobileEntity.get_closest_object_coordinates
get_closest_object_coordinates(g, e, x, y, types) ==
    LET cells == get_all_cells_with_type(g, e, types)
    IN  IF cells = <<>> THEN NoCell ELSE Closest(cells, <<x, y>>)

\* the step whose distance to the entity itself is smallest
get_next_position_towards_self(x, y, target) ==
    Closest(get_all_possible_steps(x, y), <<x, y>>)

\* MobileEntity.get_next_position_towards_object
get_next_position_towards_object(x, y, target) ==
    Closest(get_all_possible_steps(x, y), target)

\* a rule that ignores the target: any step of get_random_step
get_next_position_any(g, e, x, y, types) ==
    SeqToSet(get_all_possible_steps(x, y))

\* a rule that stays in place when there is no target
get_next_position_in_place(g, e, x, y, types) ==
    LET c == get_closest_object_coordinates(g, e, x, y, types)
    IN  IF c[1] # -1 /\ c[2] # -1
        THEN {get_next_position_towards_object(x, y, c)}
        ELSE {<<x, y>>}

\* MobileEntity.get_next_position: the positions it can return (one when a
\* target exists, any step of get_random_step otherwise)
get_next_position(g, e, x, y, types) ==
    LET c == get_closest_object_coordinates(g, e, x, y, types)
    IN  IF c[1] # -1 /\ c[2] # -1
        THEN {get_next_position_towards_object(x, y, c)}
        ELSE SeqToSet(get_all_possible_steps(x, y))

\* what one update() call works on: the grid (the entity already popped),
\* the objects, the counters; and what it did: whether it consumed (and the
\* history of that block), how many it spawned, the partner it mated with
\* (0: none) and the cell of the offspring (NoCell: none placed)
World(g, e, st) == [grid |-> g, ent |-> e, statistics |-> st, fed |-> FALSE, born |-> 0,
                    mate |-> 0, child |-> NoCell, meal |-> NoMeal]

Meal(pos, w, w2) ==
    [pos |-> pos, gridPre |-> w.grid, gridPost |-> w2.grid, entPre |-> w.ent,
     entPost |-> w2.ent, statPre |-> w.statistics, statPost |-> w2.statistics]

\* Entity.reset_ttl
reset_ttl(e, id) == [e EXCEPT ![id].ttl = e[id].base_ttl]

\* a reset that leaves the cooldown as it was
reset_mating_cooldown_skipped(e, id) == e

\* Herbivore.reset_mating_cooldown / Omnivore.reset_mating_cooldown
reset_mating_cooldown(e, id) ==
    [e EXCEPT ![id].mating_cool_down = e[id].base_mating_cool_down]

EatenStat(food, eater) ==
    CASE food = "Plant" /\ eater = "Herbivore" -> "plant_eaten_by_herbivore"
      [] food = "Herbivore" /\ eater = "Predator" -> "herbivore_eaten_by_predator"
      [] food = "Plant" /\ eater = "Omnivore" -> "plant_eaten_by_omnivore"
      [] food = "Herbivore" /\ eater = "Omnivore" -> "herbivore_eaten_by_omnivore"
      [] food = "Predator" /\ eater = "Omnivore" -> "predator_eaten_by_omnivore"

ReproducedStat(t) ==
    CASE t = "Herbivore" -> "herbivore_reproduced"
      [] t = "Omnivore" -> "omnivore_reproduced"

DiedStat(t) ==
    CASE t = "Plant" -> "plant_died_naturally"
      [] t = "Herbivore" -> "herbivore_died_naturally"
      [] t = "Predator" -> "predator_died_naturally"
      [] t = "Omnivore" -> "omnivore_died_naturally"

SpawnedStat(t) ==
    CASE t = "Plant" -> "plant_spawned"
      [] t = "Herbivore" -> "herbivore_spawned"
      [] t = "Predator" -> "predator_spawned"
      [] t = "Omnivore" -> "omnivore_spawned"

\* the consumption block of Herbivore.update (food Plant) and of
\* Predator.update (food Herbivore)
Eat(w, id, pos, food, eater) ==
    IF is_object_type_in_cell(w.grid, w.ent, pos, {food})
    THEN LET w2 == [w EXCEPT
                      !.grid = [w.grid EXCEPT ![pos] = Without(w.ent, @, {food})],
                      !.ent = reset_ttl(w.ent, id),
                      !.statistics = record_stat(w.statistics, EatenStat(food, eater),
                                                 CountOf(w.ent, w.grid[pos], {food})),
                      !.fed = TRUE]
         IN  [w2 EXCEPT !.meal = Meal(pos, w, w2)]
    ELSE w

\* the consumption block of Omnivore.update
OmnivoreEat(w, id, pos) ==
    LET is_plant == is_object_type_in_cell(w.grid, w.ent, pos, {"Plant"})
        is_herbivore == is_object_type_in_cell(w.grid, w.ent, pos, {"Herbivore"})
        is_predator == is_object_type_in_cell(w.grid, w.ent, pos, {"Predator"})
        first == IF is_plant THEN "Plant"
                 ELSE IF is_herbivore THEN "Herbivore" ELSE "Predator"
    IN  IF is_plant \/ is_herbivore \/ is_predator
        THEN LET w2 == [w EXCEPT
                          !.grid = [w.grid EXCEPT ![pos] =
                                      Without(w.ent, @, {"Plant", "Herbivore", "Predator"})],
                          !.ent = reset_ttl(w.ent, id),
                          !.statistics = record_stat(w.statistics,
                                                     EatenStat(first, "Omnivore"), 1),
                          !.fed = TRUE]
             IN  [w2 EXCEPT !.meal = Meal(pos, w, w2)]
        ELSE w

\* the entities of species t in cell pos that can mate, in cell order
Mateable(w, pos, t) ==
    SelectSeq(w.grid[pos], LAMBDA i : IsInstance(w.ent, i, {t}) /\ can_mate(w.ent[i]))

\* the guard of the reproduction block of Herbivore.update / Omnivore.update
Mates(w, id, pos, t) ==
    /\ is_object_type_in_cell(w.grid, w.ent, pos, {t})
    /\ can_mate(w.ent[id])
    /\ Len(Mateable(w, pos, t)) >= 1

\* the cells random.choice can return inside add_entity_in_range when the
\* reproduction block runs; NoCell when it places nothing
OffspringChoices(w, id, pos, t) ==
    LET cells == possible_cells(w.grid, pos[1], pos[2], 1, TRUE, FALSE)
    IN  IF Mates(w, id, pos, t) /\ cells # <<>> THEN SeqToSet(cells) ELSE {NoCell}

\* GOLGrid.add_entity_in_range with the cell random.choice returned
add_entity(w, t, cell) ==
    LET e2 == Append(w.ent, create_entity(cfg, t, cell[1], cell[2]))
    IN  [w EXCEPT !.ent = e2,
                  !.grid = [w.grid EXCEPT ![cell] = Append(@, Len(e2))],
                  !.born = @ + 1]

\* the reproduction block of Herbivore.update / Omnivore.update; oc is the
\* cell chosen for the offspring
Mate(w, id, pos, oc, t) ==
    IF Mates(w, id, pos, t)
    THEN LET mate == Mateable(w, pos, t)[1]
             w2 == [w EXCEPT !.ent = reset_mating_cooldown(
                                         reset_mating_cooldown(w.ent, mate), id),
                             !.mate = mate]
         IN  IF oc # NoCell
             THEN [add_entity(w2, t, oc) EXCEPT
                      !.statistics = record_stat(w2.statistics, ReproducedStat(t), 1),
                      !.child = oc]
             ELSE w2
    ELSE w

\* Herbivore.update after the move: reproduction, then consumption
Herbivore_update(w, id, pos, oc) ==
    Eat(Mate(w, id, pos, oc, "Herbivore"), id, pos, "Plant", "Herbivore")

\* a Predator.update that also leaves a new Predator in its cell
Predator_update_breeding(w, id, pos) ==
    add_entity(Eat(w, id, pos, "Herbivore", "Predator"), "Predator", pos)

\* Predator.update after the move: consumption only
Predator_update(w, id, pos) == Eat(w, id, pos, "Herbivore", "Predator")

\* Omnivore.update after the move: consumption, then reproduction
Omnivore_update(w, id, pos, oc) ==
    Mate(OmnivoreEat(w, id, pos), id, pos, oc, "Omnivore")

\* the species a mover seeks: the argument update() passes to get_next_position
Targets(t) ==
    CASE t = "Herbivore" -> {"Plant"}
      [] t = "Predator" -> {"Herbivore"}
      [] t = "Omnivore" -> {"Plant", "Herbivore", "Predator"}

\* the positions update() can move to: Plant.update returns self.x, self.y
MoveChoices(t, w, id) ==
    IF t = "Plant" THEN {<<w.ent[id].x, w.ent[id].y>>}
    ELSE get_next_position(w.grid, w.ent, w.ent[id].x, w.ent[id].y, Targets(t))

SpawnChoices(t, w, id, pos) ==
    CASE t = "Herbivore" -> OffspringChoices(w, id, pos, t)
      [] t = "Omnivore" -> OffspringChoices(OmnivoreEat(w, id, pos), id, pos, t)
      [] OTHER -> {NoCell}

Update(t, w, id, pos, oc) ==
    CASE t = "Plant" -> w
      [] t = "Herbivore" -> Herbivore_update(w, id, pos, oc)
      [] t = "Predator" -> Predator_update(w, id, pos)
      [] t = "Omnivore" -> Omnivore_update(w, id, pos, oc)

\* ------------------------------------------------------------ the tick
\* GOLGrid.update is called `steps` times by the simulation loop
StartTick ==
    /\ pc = "idle"
    /\ tick < cfg.steps
    /\ pc' = "collect"
    /\ passIdx' = 1
    /\ passStart' = {}
    /\ updated' = <<>>
    /\ lastTurn' = NoTurn
    /\ tickStart' = [Snapshot(grid, ent) EXCEPT !.stat = statistics]
    /\ UNCHANGED <<cfg, grid, ent, statistics, err, tick, todo, spawnIdx, call,
                   removed, alerts>>

\* the tuples of one cell, of every species
CellEntries_any(g, e, p, t) ==
    [i \in DOMAIN g[p] |-> [id |-> g[p][i], x |-> p[1], y |-> p[2], index |-> i - 1]]

\* the (entity, x, y, i) tuples of one cell, for the species t
CellEntries(g, e, p, t) ==
    SelectSeq([i \in DOMAIN g[p] |-> [id |-> g[p][i], x |-> p[1], y |-> p[2], index |-> i - 1]],
              LAMBDA r : IsInstance(e, r.id, {t}))

\* entities_to_update as collected: cells in scan order, each in list order
Collected(g, e, t) ==
    LET RECURSIVE From(_)
        From(k) == IF k > Len(AllCells) THEN <<>>
                   ELSE CellEntries(g, e, AllCells[k], t) \o From(k + 1)
    IN  From(1)

\* entities_to_update.sort(key=index, reverse=True): a stable sort, tuples
\* of equal index keep their collected order
SortByIndexDesc(s) ==
    LET top == IF s = <<>> THEN -1
               ELSE CHOOSE m \in {s[i].index : i \in DOMAIN s} :
                        \A i \in DOMAIN s : s[i].index <= m
        RECURSIVE Down(_)
        Down(k) == IF k < 0 THEN <<>>
                   ELSE SelectSeq(s, LAMBDA r : r.index = k) \o Down(k - 1)
    IN  Down(top)

\* the head of _update_entities_by_type: collect and sort
Collect ==
    /\ pc = "collect"
    /\ passIdx <= Len(cfg.order_to_process)
    /\ IF ScanRaises
       THEN /\ pc' = "error"
            /\ err' = "IndexError"
            /\ UNCHANGED <<todo, passIdx, passStart, updated>>
       ELSE LET t == cfg.order_to_process[passIdx]
                list == SortByIndexDesc(Collected(grid, ent, t))
            IN  /\ todo' = list
                /\ pc' = IF list = <<>> THEN "collect" ELSE "turn"
                /\ passIdx' = IF list = <<>> THEN passIdx + 1 ELSE passIdx
                /\ passStart' = {list[i].id : i \in DOMAIN list}
                /\ updated' = <<>>
                /\ err' = err
    /\ UNCHANGED <<cfg, grid, ent, statistics, tick, spawnIdx, lastTurn, tickStart, call,
                   removed, alerts>>

\* the entities a consumption block took out of its cell
Consumed(m) ==
    IF m.pos = NoCell THEN {}
    ELSE SeqToSet(m.gridPre[m.pos]) \ SeqToSet(m.gridPost[m.pos])

\* an exception leaves update(): the run ends
Raise(kind, g, h, popped) ==
    /\ pc' = "error"
    /\ err' = kind
    /\ grid' = g
    /\ lastTurn' = [id |-> h.id, popped |-> popped, keep |-> FALSE, pos |-> NoCell,
                    ttl0 |-> ent[h.id].ttl, fed |-> FALSE, raised |-> TRUE,
                    mate |-> 0, child |-> NoCell, meal |-> NoMeal,
                    len0 |-> Len(ent), stat0 |-> statistics]
    /\ UNCHANGED <<cfg, ent, statistics, tick, passIdx, todo, spawnIdx,
                   passStart, updated, tickStart, call, removed, alerts>>

\* the tail of one loop iteration of _update_entities_by_type: re-insert
\* the entity at its new position, or record its death
EndTurn(h, popped, w, keep, pos) ==
    LET t == cfg.order_to_process[passIdx]
    IN  /\ grid' = IF keep THEN [w.grid EXCEPT ![GridCell(cfg, pos)] = Append(@, h.id)]
                  ELSE w.grid
        /\ ent' = IF keep THEN [w.ent EXCEPT ![h.id].x = pos[1], ![h.id].y = pos[2]]
                  ELSE w.ent
        /\ statistics' = IF keep THEN w.statistics
                         ELSE record_stat(w.statistics, DiedStat(t), 1)
        /\ todo' = Tail(todo)
        /\ pc' = IF Tail(todo) = <<>> THEN "collect" ELSE "turn"
        /\ passIdx' = IF Tail(todo) = <<>> THEN passIdx + 1 ELSE passIdx
        /\ updated' = Append(updated, h.id)
        /\ lastTurn' = [id |-> h.id, popped |-> popped, keep |-> keep, pos |-> pos,
                        ttl0 |-> ent[h.id].ttl, fed |-> w.fed, raised |-> FALSE,
                        mate |-> w.mate, child |-> w.child, meal |-> w.meal,
                        len0 |-> Len(ent), stat0 |-> statistics]
        /\ tickStart' = [tickStart EXCEPT !.spawns = @ + w.born,
                                          !.updated = Append(@, h.id),
                                          !.fed = IF w.fed THEN @ \cup {h.id} ELSE @,
                                          !.mated = IF w.mate # 0
                                                    THEN @ \cup {h.id, w.mate} ELSE @,
                                          !.eaten = @ \cup Consumed(w.meal)]
        /\ removed' = removed \cup (IF keep THEN {} ELSE {h.id}) \cup Consumed(w.meal)
        /\ UNCHANGED <<cfg, err, tick, spawnIdx, passStart, call, alerts>>

\* one iteration of the loop of _update_entities_by_type for the species t:
\* pop the entity from its recorded cell and index, run its update(), then
\* EndTurn
Turn(t) ==
    /\ pc = "turn"
    /\ todo # <<>>
    /\ cfg.order_to_process[passIdx] = t
    /\ LET h == todo[1]
           cell == <<h.x, h.y>>
       IN  IF h.index >= Len(grid[cell])
           THEN Raise("IndexError", grid, h, 0)
           ELSE LET popped == grid[cell][h.index + 1]
                    g1 == [grid EXCEPT ![cell] = Pop(@, h.index)]
                    me == ent[h.id]
                IN  IF should_be_removed(me)
                    THEN EndTurn(h, popped, World(g1, ent, statistics), FALSE, NoCell)
                    ELSE IF me.ttl = None
                    THEN Raise("TypeError", g1, h, popped)
                    ELSE LET w1 == World(g1, [ent EXCEPT ![h.id].ttl = @ - 1], statistics)
                         IN  \E pos \in MoveChoices(t, w1, h.id) :
                               \E oc \in SpawnChoices(t, w1, h.id, pos) :
                                 EndTurn(h, popped, Update(t, w1, h.id, pos, oc), TRUE, pos)

PlantTurn == Turn("Plant")
HerbivoreTurn == Turn("Herbivore")
PredatorTurn == Turn("Predator")
OmnivoreTurn == Turn("Omnivore")

\* update(): the species loop is over, the spawn loop begins
PassesDone ==
    /\ pc = "collect"
    /\ passIdx > Len(cfg.order_to_process)
    /\ pc' = "spawn"
    /\ spawnIdx' = 1
    /\ UNCHANGED <<cfg, grid, ent, statistics, err, tick, passIdx, todo,
                   passStart, updated, lastTurn, tickStart, call, removed, alerts>>

\* the record of one randomly_add_entity call: r is the draw, ret what the
\* call returned ("raised": it raised), cell the cell random.choice returned
SpawnCall(sp, r, ret, cell) ==
    [op |-> "randomly_add_entity", n |-> call.n, type |-> sp.type,
     args |-> [probability |-> sp.probability,
               only_empty_cells |-> sp.only_empty_cells, draw |-> r],
     ret |-> ret, cell |-> cell,
     gridPre |-> grid, entPre |-> ent, statPre |-> statistics]

\* one iteration of the spawn loop of update(): GOLGrid.randomly_add_entity
\* with the draw r / DrawLevels of random.random() and the cell
\* random.choice returns
Spawn ==
    /\ pc = "spawn"
    /\ spawnIdx <= Len(cfg.random_spawn_config)
    /\ LET sp == cfg.random_spawn_config[spawnIdx]
       IN  \E r \in 0..(DrawLevels - 1) :
             LET skip == /\ spawnIdx' = spawnIdx + 1
                         /\ call' = SpawnCall(sp, r, "False", NoCell)
                         /\ UNCHANGED <<grid, ent, statistics, pc, err, tickStart>>
                 raise == /\ pc' = "error"
                          /\ err' = "IndexError"
                          /\ call' = SpawnCall(sp, r, "raised", NoCell)
                          /\ UNCHANGED <<grid, ent, statistics, spawnIdx, tickStart>>
             IN  IF (DrawLevels - r) >= sp.probability
                 THEN skip
                 ELSE IF sp.only_empty_cells /\ ScanRaises
                 THEN raise
                 ELSE LET cells == IF sp.only_empty_cells
                                   THEN get_all_empty_cells(grid) ELSE AllCells
                      IN  IF cells = <<>>
                          THEN skip
                          ELSE \E k \in DOMAIN cells :
                                 IF ~HasCell(cfg, cells[k][1], cells[k][2])
                                 THEN raise
                                 ELSE LET w == add_entity(World(grid, ent, statistics),
                                                          sp.type, cells[k])
                                      IN  /\ grid' = w.grid
                                          /\ ent' = w.ent
                                          /\ statistics' = record_stat(statistics,
                                                                SpawnedStat(sp.type), 1)
                                          /\ tickStart' = [tickStart EXCEPT !.spawns = @ + 1]
                                          /\ spawnIdx' = spawnIdx + 1
                                          /\ call' = SpawnCall(sp, r, "True", cells[k])
                                          /\ UNCHANGED <<pc, err>>
    /\ UNCHANGED <<cfg, tick, passIdx, todo, passStart, updated, lastTurn,
                   removed, alerts>>

\* update() returns
EndTick ==
    /\ pc = "spawn"
    /\ spawnIdx > Len(cfg.random_spawn_config)
    /\ pc' = "idle"
    /\ tick' = tick + 1
    /\ UNCHANGED <<cfg, grid, ent, statistics, err, passIdx, todo, spawnIdx,
                   passStart, updated, lastTurn, tickStart, call, removed, alerts>>

Next ==
    \/ StartTick
    \/ Collect
    \/ PlantTurn
    \/ HerbivoreTurn
    \/ PredatorTurn
    \/ OmnivoreTurn
    \/ PassesDone
    \/ Spawn
    \/ EndTick

Spec == Init /\ [][Next]_vars

\* ------------------------------------------- add_entity_in_range, called
\* GOLGrid.add_entity_in_range called on the constructed grid with arguments
\* of the caller's choice: a species, a centre among the coordinates of
\* [0, width) x [0, height), a range and the two flags
AddEntityInRange ==
    /\ pc = "idle"
    /\ tick = 0
    /\ call.n < MaxCalls
    /\ \E t \in {"Plant", "Herbivore"}, c \in SeqToSet(AllCells),
          rd \in 0..MaxRange, xc \in BOOLEAN, oe \in BOOLEAN :
          LET cells == possible_cells(grid, c[1], c[2], rd, xc, oe)
              rec(ret, cell) ==
                  [op |-> "add_entity_in_range", n |-> call.n + 1, type |-> t,
                   args |-> [center |-> c, range_distance |-> rd,
                             exclude_center |-> xc, only_empty_cells |-> oe],
                   ret |-> ret, cell |-> cell,
                   gridPre |-> grid, entPre |-> ent, statPre |-> statistics]
          IN  IF cells = <<>>
              THEN /\ call' = rec("False", NoCell)
                   /\ UNCHANGED <<grid, ent>>
              ELSE \E k \in DOMAIN cells :
                     LET w == add_entity(World(grid, ent, statistics), t, cells[k])
                     IN  /\ grid' = w.grid
                         /\ ent' = w.ent
                         /\ call' = rec("True", cells[k])
    /\ UNCHANGED <<cfg, statistics, pc, err, tick, passIdx, todo, spawnIdx,
                   passStart, updated, lastTurn, tickStart, removed, alerts>>

NextApi == AddEntityInRange

SpecApi == Init /\ [][NextApi]_vars

\* ---------------------------------------------------------- construction
\* names and types the factory does not know
UnknownNames == {"Wolf"}
OtherTypes == {"MobileEntity"}

\* a lookup that accepts every name
KnownName_any(name) == TRUE

\* EntityFactory.ENTITY_TYPE_MAP[name] does not raise KeyError
KnownName(name) == name \in Species

\* the exception GOLGrid.__init__ raises on the configuration c ("": none):
\* the order_to_process names are looked up first, then the
\* random_spawn_config names, then the initial entities are placed
ConstructionError(c) ==
    IF \E i \in DOMAIN c.order_to_process : ~KnownName(c.order_to_process[i])
    THEN "KeyError"
    ELSE IF \E i \in DOMAIN c.random_spawn_config : ~KnownName(c.random_spawn_config[i].type)
    THEN "KeyError"
    ELSE IF InitRaises(c) THEN "IndexError"
    ELSE ""

AllSpecies == <<(<<"Plant", 0, 0>>), (<<"Herbivore", 0, 0>>),
                (<<"Predator", 0, 0>>), (<<"Omnivore", 0, 0>>)>>

\* configurations GOLGrid.__init__ is given: a zero width or height; an
\* unknown name in order_to_process or in random_spawn_config; a Plant at
\* every coordinate around a 2 x 2 and a 1 x 2 grid; and well-formed ones
ZeroDims == {<<0, 0>>, <<0, 1>>, <<1, 0>>, <<0, 2>>, <<2, 0>>}

ZeroConfigs ==
    {MkConfig(d[1], d[2], MaxSteps, DefaultOrder, <<SpawnEntry("Plant", DrawLevels, b)>>,
              MaxTtl, MaxTtl, MaxTtl, MaxTtl, 1, 1, ini) :
        d \in ZeroDims, b \in BOOLEAN, ini \in {<<>>, <<(<<"Plant", 0, 0>>)>>}}

UnknownConfigs ==
    {MkConfig(n, n, 1, ord, sp, MaxTtl, MaxTtl, MaxTtl, MaxTtl, 1, 1, ini) :
        n \in {1, 2},
        ord \in {DefaultOrder, <<"Plant", "Wolf">>, <<"Wolf">>},
        sp \in {<<>>, <<SpawnEntry("Plant", DrawLevels, TRUE)>>,
                <<SpawnEntry("Wolf", DrawLevels, TRUE)>>,
                <<SpawnEntry("Plant", DrawLevels, TRUE), SpawnEntry("Wolf", 0, FALSE)>>},
        ini \in {<<>>, AllSpecies}}

CoordinateConfigs ==
    {MkConfig(d[1], d[2], 1, DefaultOrder, <<>>, MaxTtl, MaxTtl, MaxTtl, MaxTtl, 1, 1,
              <<(<<"Plant", x, y>>)>>) :
        d \in {<<2, 2>>, <<1, 2>>}, x \in -3..2, y \in -3..2}

WellFormedConfigs ==
    {MkConfig(1, 1, 1, ord, <<SpawnEntry("Predator", DrawLevels, FALSE)>>,
              MaxTtl, MaxTtl, MaxTtl, MaxTtl, 1, 1, ini) :
        ord \in Orders, ini \in InitialStates(1, 1, MaxPlaced)}

ConstructConfigs == ZeroConfigs \cup UnknownConfigs \cup CoordinateConfigs
                        \cup WellFormedConfigs

\* before GOLGrid(init_file_path): the configuration file exists, no grid
InitConstruct ==
    /\ cfg \in ConstructConfigs
    /\ grid = <<>>
    /\ ent = <<>>
    /\ statistics = [n \in {} |-> 0]
    /\ pc = "new"
    /\ err = ""
    /\ tick = 0
    /\ passIdx = 0
    /\ todo = <<>>
    /\ spawnIdx = 0
    /\ passStart = {}
    /\ updated = <<>>
    /\ lastTurn = NoTurn
    /\ tickStart = Snapshot(<<>>, <<>>)
    /\ call = NoCall
    /\ removed = {}
    /\ alerts = NoAlerts

\* GOLGrid.__init__: it raises, and no grid object exists, or it returns
\* the grid with the initial entities placed
Construct ==
    /\ pc = "new"
    /\ IF ConstructionError(cfg) # ""
       THEN /\ pc' = "error"
            /\ err' = ConstructionError(cfg)
            /\ UNCHANGED <<grid, ent, tickStart>>
       ELSE /\ pc' = "idle"
            /\ err' = err
            /\ grid' = InitGrid(cfg)
            /\ ent' = InitEnt(cfg)
            /\ tickStart' = Snapshot(InitGrid(cfg), InitEnt(cfg))
    /\ UNCHANGED <<cfg, statistics, tick, passIdx, todo, spawnIdx, passStart,
                   updated, lastTurn, call, removed, alerts>>

\* EntityFactory.create_entity(entity_type, x, y) raises ValueError
create_entity_raises(t) == t \notin Species

\* EntityFactory.create_entity called on the factory of the constructed
\* grid with a type and a position of the caller's choice: it returns a new
\* object, which it stores nowhere, or raises
CreateEntity ==
    /\ pc = "idle"
    /\ tick = 0
    /\ call.n < MaxCalls
    /\ \E t \in Species \cup OtherTypes, x \in 0..1, y \in 0..1 :
          call' = [op |-> "create_entity", n |-> call.n + 1, type |-> t,
                   args |-> [x |-> x, y |-> y],
                   ret |-> IF create_entity_raises(t) THEN "raised"
                           ELSE create_entity(cfg, t, x, y).type,
                   cell |-> NoCell,
                   gridPre |-> grid, entPre |-> ent, statPre |-> statistics]
    /\ UNCHANGED <<cfg, grid, ent, statistics, pc, err, tick, passIdx, todo, spawnIdx,
                   passStart, updated, lastTurn, tickStart, removed, alerts>>

NextConstruct ==
    \/ Construct
    \/ CreateEntity
    \/ Next

SpecConstruct == InitConstruct /\ [][NextConstruct]_vars

\* ------------------------------------------------------------- observers
\* type(entity).__name__.lower()
Lower(t) ==
    CASE t = "Plant" -> "plant" [] t = "Herbivore" -> "herbivore"
      [] t = "Predator" -> "predator" [] t = "Omnivore" -> "omnivore"

\* the (cell, position) pairs of the entries get_population_counts visits
Entries(g) == UNION {{<<p, i>> : i \in DOMAIN g[p]} : p \in SeqToSet(AllCells)}

\* GOLGrid.get_population_counts: one counter per species name met in the
\* scan, incremented for every entry of that species
get_population_counts(g, e) ==
    [n \in {Lower(e[g[q[1]][q[2]]].type) : q \in Entries(g)} |->
        Cardinality({q \in Entries(g) : Lower(e[g[q[1]][q[2]]].type) = n})]

\* GOLGrid.get_grid_stats: the counts with their sum under 'total', and a
\* copy of the cumulative counters
get_grid_stats(g, e, st) ==
    LET population == get_population_counts(g, e)
    IN  [population |-> [n \in (DOMAIN population) \cup {"total"} |->
                            IF n = "total" THEN Cardinality(Entries(g))
                            ELSE population[n]],
         events |-> st]

\* GOLGrid.get_grid_stats called between two ticks: it returns the
\* statistics, or the scan of get_population_counts raises IndexError
GetGridStats ==
    /\ pc = "idle"
    /\ call' = [op |-> "get_grid_stats", n |-> call.n, type |-> "", args |-> <<>>,
                ret |-> IF ScanRaises THEN "raised" ELSE "returned",
                cell |-> NoCell,
                gridPre |-> grid, entPre |-> ent, statPre |-> statistics,
                value |-> IF ScanRaises THEN <<>> ELSE get_grid_stats(grid, ent, statistics)]
    /\ UNCHANGED <<cfg, grid, ent, statistics, pc, err, tick, passIdx, todo, spawnIdx,
                   passStart, updated, lastTurn, tickStart, removed, alerts>>

\* dict.get(key, default)
Get(f, key, default) == IF key \in DOMAIN f THEN f[key] ELSE default

\* an alert object as its constructor leaves it: ZeroStatsAlert(arg),
\* PredatorEatsHerbivoreAlert(), EntityAboveThreshold(arg, ...),
\* TimelineSummaryAlert(path); previous_statistics <<>> is None
Alert(kind, arg) ==
    [kind |-> kind, arg |-> arg, previous_herbivores_eaten |-> 0,
     step |-> 0, events |-> {}, previous_statistics |-> <<>>]

\* what get_message leaves and gives: the alert object, the message (<<>>
\* is None) and the exception it raised ("": none)
Answer(a, message, raised) == [alert |-> a, message |-> message, raised |-> raised]

\* ZeroStatsAlert.get_message
ZeroStats_get_message(a, s) ==
    Answer(a, IF Get(s.population, a.arg, 0) = 0 THEN <<a.kind, a.arg>> ELSE <<>>, "")

\* PredatorEatsHerbivoreAlert.get_message
PredatorEatsHerbivore_get_message(a, s) ==
    LET current == Get(s.events, "herbivore_eaten_by_predator", 0)
    IN  Answer([a EXCEPT !.previous_herbivores_eaten = current],
               IF current > a.previous_herbivores_eaten
               THEN <<a.kind, current - a.previous_herbivores_eaten>> ELSE <<>>,
               "")

\* EntityAboveThreshold.get_message: grid_stats[self.entity], on a dict
\* whose keys are 'population' and 'events'
EntityAboveThreshold_get_message(a, s) ==
    Answer(a, <<>>, IF a.arg \in DOMAIN s THEN "TypeError" ELSE "KeyError")

\* TimelineSummaryAlert.check_events: the first call stores a copy; a later
\* one records every population that differs from the stored one and every
\* counter that rose, and stores those (the order of the records of one
\* call is not kept)
check_events(a, s) ==
    IF a.previous_statistics = <<>>
    THEN [a EXCEPT !.previous_statistics = [population |-> s.population, events |-> s.events]]
    ELSE LET prev == a.previous_statistics
             pop == {k \in (DOMAIN s.population) \ {"total"} :
                        s.population[k] # Get(prev.population, k, 0)}
             evs == {k \in DOMAIN s.events : s.events[k] > Get(prev.events, k, 0)}
         IN  [a EXCEPT
                !.events = @ \cup {<<a.step, k, Get(prev.population, k, 0), s.population[k]>> : k \in pop}
                             \cup {<<a.step, k, Get(prev.events, k, 0), s.events[k]>> : k \in evs},
                !.previous_statistics =
                    [population |-> [k \in (DOMAIN prev.population) \cup pop |->
                                        IF k \in pop THEN s.population[k] ELSE prev.population[k]],
                     events |-> [k \in (DOMAIN prev.events) \cup evs |->
                                    IF k \in evs THEN s.events[k] ELSE prev.events[k]]]]

\* get_message of the alert a on the grid as it is; every one of them
\* begins by calling get_grid_stats, TimelineSummaryAlert after self.step += 1
get_message(a) ==
    LET a1 == IF a.kind = "TimelineSummaryAlert" THEN [a EXCEPT !.step = @ + 1] ELSE a
        s == get_grid_stats(grid, ent, statistics)
    IN  IF ScanRaises THEN Answer(a1, <<>>, "IndexError")
        ELSE CASE a.kind = "ZeroStatsAlert" -> ZeroStats_get_message(a, s)
               [] a.kind = "PredatorEatsHerbivoreAlert" -> PredatorEatsHerbivore_get_message(a, s)
               [] a.kind = "EntityAboveThreshold" -> EntityAboveThreshold_get_message(a, s)
               [] a.kind = "TimelineSummaryAlert" -> Answer(check_events(a1, s), <<>>, "")

\* AlertManager.check_alerts: get_message of every alert in registration
\* order, the messages that are not None collected; an exception ends it
check_alerts(list) ==
    LET RECURSIVE From(_, _, _)
        From(k, l, messages) ==
            IF k > Len(l) THEN [list |-> l, messages |-> messages, raised |-> ""]
            ELSE LET r == get_message(l[k])
                     l2 == [l EXCEPT ![k] = r.alert]
                 IN  IF r.raised # ""
                     THEN [list |-> l2, messages |-> messages, raised |-> r.raised]
                     ELSE From(k + 1, l2,
                               IF r.message = <<>> THEN messages
                               ELSE Append(messages, r.message))
    IN  From(1, list, <<>>)

\* the alerts the simulation script registers before its loop
AlertSetups ==
    {<<>>,
     <<Alert("ZeroStatsAlert", "plants"), Alert("ZeroStatsAlert", "herbivore"),
       Alert("PredatorEatsHerbivoreAlert", "")>>,
     <<Alert("TimelineSummaryAlert", "")>>,
     <<Alert("PredatorEatsHerbivoreAlert", ""), Alert("EntityAboveThreshold", "herbivores"),
       Alert("TimelineSummaryAlert", "")>>}

\* alert_manager.print_alerts(gol_grid) of the simulation loop, after an
\* update(): an exception of check_alerts leaves the loop
CheckAlerts ==
    /\ pc = "idle"
    /\ alerts.list # <<>>
    /\ alerts.checks < tick
    /\ LET r == check_alerts(alerts.list)
       IN  /\ alerts' = [list |-> r.list, checks |-> alerts.checks + 1]
           /\ pc' = IF r.raised # "" THEN "error" ELSE pc
           /\ err' = r.raised
           /\ call' = [op |-> "check_alerts", n |-> call.n, type |-> "", args |-> <<>>,
                       ret |-> IF r.raised # "" THEN "raised" ELSE "returned",
                       cell |-> NoCell,
                       gridPre |-> grid, entPre |-> ent, statPre |-> statistics,
                       value |-> r.messages]
    /\ UNCHANGED <<cfg, grid, ent, statistics, tick, passIdx, todo, spawnIdx,
                   passStart, updated, lastTurn, tickStart, removed>>

\* the runs that are observed: one-cell grids with every mix of up to
\* MaxPlaced entities, mating pairs, Predators with their prey, empty
\* grids, square or not, with a Plant spawn, and the one-cell hunt
ObservedConfigs ==
    WellFormedConfigs
        \cup {c \in PredatorConfigs \cup MatingConfigs : c.width = 1}
        \cup {c \in SpawnConfigs : c.initial_state = <<>>
                                   /\ c.random_spawn_config[1].probability = DrawLevels}
        \cup HuntCellConfigs

\* the constructed grid with the alerts of the script registered
InitObserved ==
    /\ cfg \in {c \in ObservedConfigs : ~InitRaises(c)}
    /\ grid = InitGrid(cfg)
    /\ ent = InitEnt(cfg)
    /\ statistics = [n \in {} |-> 0]
    /\ pc = "idle"
    /\ err = ""
    /\ tick = 0
    /\ passIdx = 0
    /\ todo = <<>>
    /\ spawnIdx = 0
    /\ passStart = {}
    /\ updated = <<>>
    /\ lastTurn = NoTurn
    /\ tickStart = Snapshot(grid, ent)
    /\ call = NoCall
    /\ removed = {}
    /\ alerts \in {[list |-> l, checks |-> 0] : l \in AlertSetups}

NextObserved ==
    \/ GetGridStats
    \/ CheckAlerts
    \/ Next

SpecObserved == InitObserved /\ [][NextObserved]_vars

\* ------------------------------------------------- grid queries, called
\* grids of every width and height up to 3, empty or with one Plant
QueryDims == {<<w, h>> : w \in 1..3, h \in 1..3}

QueryConfigs ==
    {MkConfig(d[1], d[2], 1, DefaultOrder, <<>>, MaxTtl, MaxTtl, MaxTtl, MaxTtl, 1, 1, ini) :
        d \in QueryDims, ini \in {<<>>, <<(<<"Plant", 0, 0>>)>>}}

InitQueries ==
    /\ cfg \in {c \in QueryConfigs : ~InitRaises(c)}
    /\ grid = InitGrid(cfg)
    /\ ent = InitEnt(cfg)
    /\ statistics = [n \in {} |-> 0]
    /\ pc = "idle"
    /\ err = ""
    /\ tick = 0
    /\ passIdx = 0
    /\ todo = <<>>
    /\ spawnIdx = 0
    /\ passStart = {}
    /\ updated = <<>>
    /\ lastTurn = NoTurn
    /\ tickStart = Snapshot(grid, ent)
    /\ call = NoCall
    /\ removed = {}
    /\ alerts = NoAlerts

\* the record of a query called with (x, y): what it returned, or that it
\* raised
Query(op, t, c, ret, value) ==
    [op |-> op, n |-> call.n, type |-> t, args |-> c, ret |-> ret, cell |-> NoCell,
     gridPre |-> grid, entPre |-> ent, statPre |-> statistics, value |-> value]

\* GOLGrid.get_all_possible_steps(x, y) called with a coordinate of
\* [0, width) x [0, height)
GetAllPossibleSteps ==
    /\ pc = "idle"
    /\ \E c \in SeqToSet(AllCells) :
          call' = Query("get_all_possible_steps", "", c, "returned",
                        get_all_possible_steps(c[1], c[2]))
    /\ UNCHANGED <<cfg, grid, ent, statistics, pc, err, tick, passIdx, todo, spawnIdx,
                   passStart, updated, lastTurn, tickStart, removed, alerts>>

\* GOLGrid.is_object_type_in_cell(x, y, object_type) called with a
\* coordinate of [0, width) x [0, height): it reads self.grid[x][y], which
\* raises IndexError when the nested list has no such cell
IsObjectTypeInCell ==
    /\ pc = "idle"
    /\ \E c \in SeqToSet(AllCells), t \in Species :
          call' = IF HasCell(cfg, c[1], c[2])
                  THEN Query("is_object_type_in_cell", t, c, "returned",
                             is_object_type_in_cell(grid, ent, c, {t}))
                  ELSE Query("is_object_type_in_cell", t, c, "raised", FALSE)
    /\ UNCHANGED <<cfg, grid, ent, statistics, pc, err, tick, passIdx, todo, spawnIdx,
                   passStart, updated, lastTurn, tickStart, removed, alerts>>

NextQueries ==
    \/ GetAllPossibleSteps
    \/ IsObjectTypeInCell

SpecQueries == InitQueries /\ [][NextQueries]_vars

\* ------------------------------------------------------ movement on 3 x 3
\* the species a mover of species m is given as targets in MoveConfigs
Food(m) ==
    CASE m = "Herbivore" -> "Plant"
      [] m = "Predator" -> "Herbivore"
      [] m = "Omnivore" -> "Predator"

MoveCells == {<<x, y>> : x \in 0..2, y \in 0..2}

\* one mover of species m anywhere on a 3 x 3 grid, with no, one or two
\* entities of its target species anywhere, listed in either order; only
\* the mover's species is in order_to_process, so the targets stay put
MoveConfigs ==
    {MkConfig(3, 3, 1, <<m>>, <<>>, MaxTtl, MaxTtl, MaxTtl, MaxTtl, 1, 1,
              [i \in DOMAIN ts |-> <<Food(m), ts[i][1], ts[i][2]>>]
                  \o <<(<<m, p[1], p[2]>>)>>) :
        m \in {"Herbivore", "Predator", "Omnivore"}, p \in MoveCells,
        ts \in UNION {[1..n -> MoveCells] : n \in 0..2}}

InitMove ==
    /\ cfg \in {c \in MoveConfigs : ~InitRaises(c)}
    /\ grid = InitGrid(cfg)
    /\ ent = InitEnt(cfg)
    /\ statistics = [n \in {} |-> 0]
    /\ pc = "idle"
    /\ err = ""
    /\ tick = 0
    /\ passIdx = 0
    /\ todo = <<>>
    /\ spawnIdx = 0
    /\ passStart = {}
    /\ updated = <<>>
    /\ lastTurn = NoTurn
    /\ tickStart = Snapshot(grid, ent)
    /\ call = NoCall
    /\ removed = {}
    /\ alerts = NoAlerts

\* update() with the passes of the mobile species
NextMove ==
    \/ StartTick
    \/ Collect
    \/ HerbivoreTurn
    \/ PredatorTurn
    \/ OmnivoreTurn
    \/ PassesDone
    \/ EndTick

SpecMove == InitMove /\ [][NextMove]_vars

\* ------------------------------------------------------- ticks, replayed
\* the configurations whose ticks are compared draw by draw: the hunt, the
\* single cell shared by up to MaxPlaced entities, and the random spawning
\* with species passes
ReplayConfigs ==
    HuntConfigs \cup WellFormedConfigs
        \cup {c \in SpawnConfigs : c.order_to_process # <<>>}

InitReplay ==
    /\ cfg \in {c \in ReplayConfigs : ~InitRaises(c)}
    /\ grid = InitGrid(cfg)
    /\ ent = InitEnt(cfg)
    /\ statistics = [n \in {} |-> 0]
    /\ pc = "idle"
    /\ err = ""
    /\ tick = 0
    /\ passIdx = 0
    /\ todo = <<>>
    /\ spawnIdx = 0
    /\ passStart = {}
    /\ updated = <<>>
    /\ lastTurn = NoTurn
    /\ tickStart = Snapshot(grid, ent)
    /\ call = NoCall
    /\ removed = {}
    /\ alerts = NoAlerts

SpecReplay == InitReplay /\ [][Next]_vars

\* ------------------------------------------------------------ properties
Count(s, x) == Cardinality({i \in DOMAIN s : s[i] = x})

\* how many times the object id is stored in the grid
Occurrences(id) ==
    Cardinality({<<p, i>> \in (DOMAIN grid) \X (1..Len(ent)) :
                    i \in DOMAIN grid[p] /\ grid[p][i] = id})

Stored == UNION {SeqToSet(grid[p]) : p \in DOMAIN grid}

PassOver == pc \in {"collect", "spawn", "idle"}

Mobile == {"Herbivore", "Predator", "Omnivore"}

InBounds(p) == 0 <= p[1] /\ p[1] < cfg.width /\ 0 <= p[2] /\ p[2] < cfg.height

C5_TotalBoundedBySpawns ==
    pc = "idle" => Total(grid) <= tickStart.total + tickStart.spawns

C5_Witness ==
    /\ pc = "idle"
    /\ tick > 0
    /\ tickStart.spawns > 0
    /\ Total(grid) = tickStart.total + tickStart.spawns

\* C6: update() never raises, whatever the (positive) dimensions, the
\* in-bounds placements and the lifespans
C6_UpdateNeverRaises == pc # "error"

C8_ImmortalIsKept ==
    (lastTurn.id # 0 /\ lastTurn.ttl0 = None) =>
        /\ ~lastTurn.raised
        /\ lastTurn.keep
        /\ ent[lastTurn.id].ttl = None

\* C9 as stated: on the 3x3 grid with a single Plant of lifespan 2 at (1,1)
\* the plant is present with ttl 1 after 1 tick and gone after 2 ticks
C9_GoneAfterLifespanTicks ==
    (cfg = PlantScenario(2) /\ pc = "idle") =>
        /\ tick = 1 => (grid[<<1, 1>>] = <<1>> /\ ent[1].ttl = 1)
        /\ tick = 2 => Stored = {}

\* C9 amended: on the 3x3 grid with a single Plant of lifespan l at (1,1),
\* after k <= l ticks the plant is still in its cell with ttl l - k (ttl 0
\* after l ticks), and after l + 1 ticks the grid is empty
C9_GoneAfterLifespanPlusOne ==
    \A l \in 0..MaxTtl :
        (cfg = PlantScenario(l) /\ pc = "idle") =>
            /\ tick <= l => (/\ grid[<<1, 1>>] = <<1>>
                             /\ Stored = {1}
                             /\ ent[1].ttl = l - tick)
            /\ tick >= l + 1 => Stored = {}

C9_Witness ==
    /\ cfg = PlantScenario(2)
    /\ pc = "idle"
    /\ tick = 3
    /\ Stored = {}
    /\ statistics = [n \in {"plant_died_naturally"} |-> 1]

\* C10: the position the movement rule returns for a mobile entity is a
\* cell of the grid: in every state where the rule returns (the grid scan
\* does not raise), for every mobile entity of the grid and every outcome
\* of the random step; and the position a turn moved to was one
C10_MoveInBounds ==
    /\ ~ScanRaises =>
          \A id \in Stored :
              ent[id].type \in Mobile =>
                  \A p \in get_next_position(grid, ent, ent[id].x, ent[id].y,
                                             Targets(ent[id].type)) : InBounds(p)
    /\ (lastTurn.id # 0 /\ lastTurn.keep) => InBounds(lastTurn.pos)

C10_Witness ==
    /\ cfg.width = 2
    /\ cfg.height = 2
    /\ lastTurn.id # 0
    /\ lastTurn.keep
    /\ ent[lastTurn.id].type \in Mobile
    /\ lastTurn.pos = <<1, 1>>
    /\ \E id \in Stored :
          /\ ent[id].type = "Predator"
          /\ get_all_cells_with_type(grid, ent, {"Herbivore"}) = <<>>

\* the cooldown the factory configures for a species that mates
ConfiguredCooldown(t) ==
    CASE t = "Herbivore" -> cfg.T_cooldown_herbivore
      [] t = "Omnivore" -> cfg.T_cooldown_omnivore

FoodSpecies(t) ==
    CASE t = "Herbivore" -> {"Plant"}
      [] t = "Predator" -> {"Herbivore"}
      [] t = "Omnivore" -> {"Plant", "Herbivore", "Predator"}

\* self.statistics.get(name, 0)
Stat(st, name) == IF name \in DOMAIN st THEN st[name] ELSE 0

\* C13: a consumption removes from the destination cell exactly the entities
\* of the eater's food species; the other entities of the cell stay, in the
\* same order and unchanged; every other cell keeps its list
C13_ConsumptionRemovesOnlyFood ==
    lastTurn.fed =>
        LET m == lastTurn.meal
            food == FoodSpecies(ent[lastTurn.id].type)
        IN  /\ m.pos = lastTurn.pos
            /\ m.gridPost[m.pos] =
                   SelectSeq(m.gridPre[m.pos], LAMBDA i : m.entPre[i].type \notin food)
            /\ Len(m.gridPost[m.pos]) < Len(m.gridPre[m.pos])
            /\ \A p \in DOMAIN m.gridPre : p # m.pos => m.gridPost[p] = m.gridPre[p]
            /\ DOMAIN m.entPost = DOMAIN m.entPre
            /\ \A i \in DOMAIN m.entPre : i # lastTurn.id => m.entPost[i] = m.entPre[i]

C13_Witness ==
    /\ lastTurn.fed
    /\ Len(lastTurn.meal.gridPost[lastTurn.pos]) > 0
    /\ Len(lastTurn.meal.gridPre[lastTurn.pos])
           >= Len(lastTurn.meal.gridPost[lastTurn.pos]) + 2

C15_ApproachesAndEats ==
    cfg = HerbivoreScenario(None) =>
        /\ pc # "error"
        /\ (pc = "idle" /\ tick > 0) =>
               IF Stat(statistics, "plant_eaten_by_herbivore") = 0
               THEN Dist2(<<ent[2].x, ent[2].y>>, <<4, 4>>)
                        < Dist2(<<tickStart.ent[2].x, tickStart.ent[2].y>>, <<4, 4>>)
               ELSE /\ Stat(statistics, "plant_eaten_by_herbivore") = 1
                    /\ 2 \in tickStart.fed =>
                           (ent[2].ttl = ent[2].base_ttl /\ grid[<<4, 4>>] = <<2>>)

Abs(n) == IF n < 0 THEN -n ELSE n

\* Chebyshev distance of two cells
Cheb(a, b) == Max(Abs(a[1] - b[1]), Abs(a[2] - b[2]))

\* the configuration puts a Plant and two Herbivores (entities 2 and 3) in
\* one cell and nothing else, all created alive: both herbivores have
\* cooldown 0 and seek the plant of their own cell
ForcedPair(c) ==
    /\ Len(c.initial_state) = 3
    /\ c.initial_state[1][1] = "Plant"
    /\ c.initial_state[2][1] = "Herbivore"
    /\ c.initial_state[3][1] = "Herbivore"
    /\ \A i \in 2..3 : /\ c.initial_state[i][2] = c.initial_state[1][2]
                       /\ c.initial_state[i][3] = c.initial_state[1][3]
    /\ c.plant_lifespan # None /\ c.plant_lifespan >= 1
    /\ c.T_herbivore # None /\ c.T_herbivore >= 1

\* what C16 promises after the first tick: one new Herbivore (an entity a
\* spawn trial adds after the passes is of another species), stored in a
\* cell adjacent to the pair's cell, both cooldowns at the configured
\* value, one reproduction event
OneOffspring ==
    LET home == <<cfg.initial_state[1][2], cfg.initial_state[1][3]>>
    IN  /\ Len(ent) >= 4
        /\ \A i \in 5..Len(ent) : ent[i].type # "Herbivore"
        /\ ent[4].type = "Herbivore"
        /\ InBounds(<<ent[4].x, ent[4].y>>)
        /\ Cheb(<<ent[4].x, ent[4].y>>, home) = 1
        /\ Count(grid[<<ent[4].x, ent[4].y>>], 4) = 1
        /\ ent[2].mating_cool_down = cfg.T_cooldown_herbivore
        /\ ent[3].mating_cool_down = cfg.T_cooldown_herbivore
        /\ Stat(statistics, "herbivore_reproduced") = 1

ReproducedDuring(t) ==
    Stat(statistics, ReproducedStat(t)) - Stat(lastTurn.stat0, ReproducedStat(t))

Qualifying ==
    {p \in (0..(cfg.width - 1)) \X (0..(cfg.height - 1)) :
        /\ Cheb(p, call.args.center) <= call.args.range_distance
        /\ call.args.exclude_center => p # call.args.center
        /\ call.args.only_empty_cells =>
               (p \notin DOMAIN call.gridPre \/ Len(call.gridPre[p]) = 0)}

\* C18: add_entity_in_range returns False exactly when no in-bounds cell
\* qualifies, and then the grid, the objects and the counters are as before;
\* when it returns True one new entity of the requested species has been
\* appended to one qualifying cell and nothing else changed
C18_AddInRangeContract ==
    call.op = "add_entity_in_range" =>
        /\ call.ret \in {"True", "False"}
        /\ call.ret = "False" <=> Qualifying = {}
        /\ call.ret = "False" =>
               (grid = call.gridPre /\ ent = call.entPre /\ statistics = call.statPre)
        /\ call.ret = "True" =>
               /\ call.cell \in Qualifying
               /\ ent = Append(call.entPre, create_entity(cfg, call.type,
                                                          call.cell[1], call.cell[2]))
               /\ grid = [call.gridPre EXCEPT ![call.cell] = Append(@, Len(ent))]
               /\ statistics = call.statPre

\* the state is the one the last randomly_add_entity call left
JustSpawned ==
    /\ call.op = "randomly_add_entity"
    /\ \/ pc = "spawn" /\ spawnIdx > 1
       \/ pc = "error" /\ call.ret = "raised"

\* the cells of [0, width) x [0, height) the last randomly_add_entity call
\* could place in, on the grid it started from
Eligible ==
    {p \in (0..(cfg.width - 1)) \X (0..(cfg.height - 1)) :
        call.args.only_empty_cells =>
            (p \notin DOMAIN call.gridPre \/ Len(call.gridPre[p]) = 0)}

\* the trial of the last randomly_add_entity call failed:
\* (1 - draw) >= probability, in units of 1 / DrawLevels
TrialFailed == (DrawLevels - call.args.draw) >= call.args.probability

\* C19: randomly_add_entity returns True exactly when it added one entity,
\* and exactly when '<species>_spawned' rose by 1; what it adds is one new
\* entity of the species, appended to one cell, which was empty before when
\* only_empty_cells is set; nothing else changes; and when the trial fails
\* or no cell is eligible the grid, the objects and the counters are as
\* before the call
C19_RandomSpawnContract ==
    JustSpawned =>
        LET added == Len(ent) - Len(call.entPre)
            counted == Stat(statistics, SpawnedStat(call.type))
                           - Stat(call.statPre, SpawnedStat(call.type))
            same == grid = call.gridPre /\ ent = call.entPre /\ statistics = call.statPre
        IN  /\ call.ret = "True" <=> added = 1
            /\ call.ret = "True" <=> counted = 1
            /\ call.ret # "True" => same
            /\ call.ret = "True" =>
                   /\ call.cell \in Eligible
                   /\ call.args.only_empty_cells => Len(call.gridPre[call.cell]) = 0
                   /\ ent = Append(call.entPre, create_entity(cfg, call.type,
                                                              call.cell[1], call.cell[2]))
                   /\ grid = [call.gridPre EXCEPT ![call.cell] = Append(@, Len(ent))]
                   /\ \A n \in DOMAIN statistics :
                          n # SpawnedStat(call.type) => Stat(call.statPre, n) = statistics[n]
            /\ (TrialFailed \/ Eligible = {}) => same

C19_Witness ==
    /\ JustSpawned
    /\ call.ret = "True"
    /\ call.args.only_empty_cells
    /\ call.args.probability < DrawLevels
    /\ Total(call.gridPre) > 0
    /\ Total(grid) = Total(call.gridPre) + 1

\* C20: with probability 0 randomly_add_entity never adds an entity; with
\* probability 1 and an eligible cell it returns True for every draw
C20_BernoulliEndpoints ==
    JustSpawned =>
        /\ call.args.probability = 0 => (call.ret = "False" /\ ent = call.entPre)
        /\ (call.args.probability = DrawLevels /\ Eligible # {}) => call.ret = "True"

\* ---------------------------------------------------------------- C21
\* the species of the pass that is running
PassSpecies == cfg.order_to_process[passIdx]

\* s is an initial segment of t
IsPrefix(s, t) == Len(s) <= Len(t) /\ \A i \in DOMAIN s : s[i] = t[i]

C22_ZeroDimensionRejected ==
    (cfg.width = 0 \/ cfg.height = 0) => (pc \in {"new", "error"} /\ tick = 0)

\* ---------------------------------------------------------------- C23
\* the configuration names a species the factory does not know
NamesUnknown ==
    \/ \E i \in DOMAIN cfg.order_to_process : cfg.order_to_process[i] \notin Species
    \/ \E i \in DOMAIN cfg.random_spawn_config : cfg.random_spawn_config[i].type \notin Species

\* C23: a configuration whose order_to_process or random_spawn_config names
\* an unknown species never yields a grid, its construction fails (and a
\* failure by KeyError has no other cause); create_entity with a type that
\* is none of the four species raises and leaves the grid, the objects and
\* the counters as they were, and with one of the four it returns an object
\* of that species
C23_UnknownSpeciesRejected ==
    /\ (NamesUnknown /\ pc # "new") =>
           /\ pc = "error"
           /\ err = "KeyError"
           /\ grid = <<>> /\ ent = <<>> /\ tick = 0
    /\ err = "KeyError" => NamesUnknown
    /\ (call.op = "create_entity" /\ tick = 0 /\ pc = "idle") =>
           /\ call.ret = (IF call.type \in Species THEN call.type ELSE "raised")
           /\ grid = call.gridPre /\ ent = call.entPre /\ statistics = call.statPre

\* construction failed on an unknown random_spawn_config name, every
\* order_to_process name being known
C23_Witness ==
    /\ pc = "error"
    /\ err = "KeyError"
    /\ \A i \in DOMAIN cfg.order_to_process : cfg.order_to_process[i] \in Species
    /\ \E i \in DOMAIN cfg.random_spawn_config : cfg.random_spawn_config[i].type = "Wolf"
    /\ cfg.initial_state # <<>>

\* ---------------------------------------------------------------- C24
\* C24: every entity of a constructed grid has its coordinates inside
\* [0, width) x [0, height)
C24_CoordinatesInRange ==
    pc \notin {"new", "error"} =>
        \A id \in DOMAIN ent : InBounds(<<ent[id].x, ent[id].y>>)

\* ---------------------------------------------------------------- C25
\* the objects of species t ever created
Created(e, t) == {id \in DOMAIN e : e[id].type = t}

\* C25: no 'predator_reproduced' event is ever recorded; the Predator
\* objects ever created are those of initial_state and one per
\* 'predator_spawned' event; and the turn of a Predator, or of anything
\* else, creates no Predator
C25_PredatorsNeverReproduce ==
    /\ "predator_reproduced" \notin DOMAIN statistics
    /\ Cardinality(Created(ent, "Predator"))
           = Cardinality(Created(InitEnt(cfg), "Predator"))
               + Stat(statistics, "predator_spawned")
    /\ (lastTurn.id # 0 /\ pc \in {"turn", "collect"}) =>
           /\ \A id \in (lastTurn.len0 + 1)..Len(ent) : ent[id].type # "Predator"
           /\ ent[lastTurn.id].type = "Predator" =>
                  (lastTurn.mate = 0 /\ lastTurn.child = NoCell /\ Len(ent) = lastTurn.len0)

\* a Predator's turn ends in a cell it shares with another Predator, as two
\* mating Herbivores would, in a run in which a Predator was spawned
C25_Witness ==
    /\ pc \in {"turn", "collect"}
    /\ lastTurn.id # 0
    /\ ent[lastTurn.id].type = "Predator"
    /\ lastTurn.keep
    /\ CountOf(ent, grid[lastTurn.pos], {"Predator"}) >= 2
    /\ Stat(statistics, "predator_spawned") >= 1
    /\ Stat(statistics, "herbivore_eaten_by_predator") >= 1

\* ---------------------------------------------------------------- C26
\* the ttl of every object is None or within 0 .. base_ttl
TtlInRange ==
    \A id \in DOMAIN ent :
        \/ ent[id].ttl = None
        \/ ent[id].base_ttl # None /\ 0 <= ent[id].ttl /\ ent[id].ttl <= ent[id].base_ttl

\* the entity whose turn is next has a ttl that is set and <= 0
NextIsExpired ==
    /\ pc = "turn"
    /\ todo # <<>>
    /\ ent[todo[1].id].ttl # None
    /\ ent[todo[1].id].ttl <= 0

C28_GridStatsContract ==
    /\ [](call.op = "get_grid_stats" =>
        /\ call.ret = "returned"
        /\ LET population == call.value.population
               InGrid(g, t) == {id \in UNION {SeqToSet(g[p]) : p \in DOMAIN g} :
                                   call.entPre[id].type = t}
               present == {t \in Species : InGrid(call.gridPre, t) # {}}
           IN  /\ DOMAIN population = {Lower(t) : t \in present} \cup {"total"}
               /\ \A t \in present :
                      population[Lower(t)] = Cardinality(InGrid(call.gridPre, t))
               /\ population["total"]
                      = Cardinality(UNION {InGrid(call.gridPre, t) : t \in present})
               /\ call.value.events = call.statPre)
    /\ [][(call' # call /\ call'.op = "get_grid_stats") =>
              /\ grid' = grid /\ ent' = ent /\ statistics' = statistics
              /\ pc' = pc
         ]_vars

\* ---------------------------------------------------------------- C29
\* C29: check_alerts returns, the simulation loop goes on, and the grid,
\* the objects and the counters are what they were before the call
C29_AlertsNoFeedback ==
    [][(call' # call /\ call'.op = "check_alerts") =>
           /\ grid' = grid /\ ent' = ent /\ statistics' = statistics
           /\ UNCHANGED <<cfg, tick, passIdx, todo, spawnIdx>>
           /\ call'.ret = "returned"
           /\ pc' = pc
      ]_vars

\* ---------------------------------------------------------------- C30
\* C30: on a grid of any width and height, get_all_possible_steps(x, y)
\* called with an in-bounds (x, y) returns exactly the cells (x+dx, y+dy),
\* dx, dy in {-1, 0, 1}, that lie in [0, width) x [0, height), (x, y)
\* among them; and a cell query called with an in-bounds (x, y) returns
C30_NeighbourhoodAnyShape ==
    /\ call.op = "get_all_possible_steps" =>
          /\ SeqToSet(call.value)
                = {p \in {<<call.args[1] + dx, call.args[2] + dy>> :
                             dx \in {-1, 0, 1}, dy \in {-1, 0, 1}} : InBounds(p)}
          /\ call.args \in SeqToSet(call.value)
    /\ call.op = "is_object_type_in_cell" => call.ret = "returned"

\* ---------------------------------------------------------------- C31
\* the cells (x+dx, y+dy), dx, dy in {-1, 0, 1}, of the grid
Neighbourhood(p) ==
    {q \in {<<p[1] + dx, p[2] + dy>> : dx \in {-1, 0, 1}, dy \in {-1, 0, 1}} :
        InBounds(q)}

\* this step is the turn of a mobile entity whose update() moved it
MoverTurn ==
    /\ pc = "turn"
    /\ updated' = Append(updated, todo[1].id)
    /\ ent[todo[1].id].type \in Mobile
    /\ lastTurn'.keep

\* where the entity of this turn is when the turn starts
Start == <<ent[todo[1].id].x, ent[todo[1].id].y>>

\* the grid the entity of this turn sees: its tuple's entry popped
Seen == [grid EXCEPT ![<<todo[1].x, todo[1].y>>] = Pop(@, todo[1].index)]

\* the cells that hold an entity of a species the mover seeks
TargetCells ==
    {c \in DOMAIN Seen :
        \E i \in DOMAIN Seen[c] : ent[Seen[c][i]].type \in Targets(ent[todo[1].id].type)}

\* the target cell by the rule: at minimum distance from the start, and
\* among those the one with the least x, then the least y
FirstNearest ==
    CHOOSE c \in TargetCells :
        \A d \in TargetCells :
            \/ Dist2(d, Start) > Dist2(c, Start)
            \/ /\ Dist2(d, Start) = Dist2(c, Start)
               /\ (c[1] < d[1] \/ (c[1] = d[1] /\ c[2] <= d[2]))

C32_NearestTargetScanOrder ==
    [][(MoverTurn /\ TargetCells # {}) =>
          LET target == get_closest_object_coordinates(Seen, ent, Start[1], Start[2],
                                                       Targets(ent[todo[1].id].type))
          IN  /\ target \in TargetCells
              /\ \A d \in TargetCells : Dist2(d, Start) >= Dist2(target, Start)
              /\ target = FirstNearest
              /\ lastTurn'.pos
                    = get_next_position_towards_object(Start[1], Start[2], FirstNearest)
      ]_vars

\* two targets at the same distance, the one later in the scan created
\* first: the mover went to the one earlier in the scan
C32_Witness ==
    /\ lastTurn.id = 3
    /\ lastTurn.keep
    /\ cfg.initial_state = <<(<<"Herbivore", 2, 0>>), (<<"Herbivore", 0, 2>>),
                             (<<"Predator", 1, 1>>)>>
    /\ lastTurn.pos = <<0, 2>>

\* ---------------------------------------------------------------- C33
\* the entity whose turn is next is a mobile one that will move: it is in
\* the cell its tuple names, and it is neither expired nor of infinite ttl
MoverNext ==
    /\ pc = "turn"
    /\ todo # <<>>
    /\ ent[todo[1].id].type \in Mobile
    /\ todo[1].index < Len(grid[<<todo[1].x, todo[1].y>>])
    /\ ent[todo[1].id].ttl # None
    /\ ent[todo[1].id].ttl > 0

\* in every turn that moves a mobile entity, the cell it goes to is in the
\* clipped Moore neighbourhood of the cell it started the turn in
StepInNeighbourhood ==
    [][MoverTurn => lastTurn'.pos \in Neighbourhood(Start)]_vars

\* when no cell holds an entity of a sought species, the turn can end in
\* every cell of the neighbourhood, the start among them
WanderAnywhere ==
    (MoverNext /\ TargetCells = {}) =>
        /\ Start \in Neighbourhood(Start)
        /\ \A q \in Neighbourhood(Start) :
               ENABLED (Turn(ent[todo[1].id].type) /\ lastTurn'.pos = q)

TurnDone ==
    /\ pc = "turn"
    /\ updated' = Append(updated, todo[1].id)

Wanders == MoverNext /\ TargetCells = {}

\* the random draws of this step: the step random.choice returned to
\* get_random_step, the cell it returned to add_entity_in_range for an
\* offspring, the value of random.random() in randomly_add_entity and the
\* cell random.choice returned to it (NoCell, <<>>: no such draw)
StepDraws ==
    [wander |-> IF Wanders THEN lastTurn'.pos ELSE NoCell,
     offspring |-> IF pc = "turn" THEN lastTurn'.child ELSE NoCell,
     trial |-> IF pc = "spawn" /\ call' # call THEN call'.args.draw ELSE -1,
     location |-> IF pc = "spawn" /\ call' # call THEN call'.cell ELSE NoCell]

\* the state a step leads to is determined by the state it starts from and
\* the draws it makes: no other step from the same state makes the same
\* draws and leads elsewhere
StepDetermined ==
    [][\A S \in {vars'}, D \in {StepDraws} :
           ~ENABLED (Next /\ StepDraws = D /\ vars' # S)
      ]_vars

\* a randomly_add_entity call whose trial fails draws no location and
\* changes nothing; one that places has drawn its location after a trial
\* that succeeded
TrialBeforeLocation ==
    [][(pc = "spawn" /\ spawnIdx' # spawnIdx) =>
           /\ (DrawLevels - call'.args.draw) >= call'.args.probability =>
                  /\ call'.cell = NoCell
                  /\ call'.ret = "False"
                  /\ grid' = grid /\ ent' = ent /\ statistics' = statistics
           /\ call'.cell # NoCell =>
                  (DrawLevels - call'.args.draw) < call'.args.probability
      ]_vars

EventNames ==
    {EatenStat("Plant", "Herbivore"), EatenStat("Herbivore", "Predator"),
     EatenStat("Plant", "Omnivore"), EatenStat("Herbivore", "Omnivore"),
     EatenStat("Predator", "Omnivore")}
        \cup {ReproducedStat(t) : t \in {"Herbivore", "Omnivore"}}
        \cup {DiedStat(t) : t \in Species} \cup {SpawnedStat(t) : t \in Species}

\* C37: no step of a tick and no query deletes a counter or lowers it; a
\* counter that changes rises by at least 1; and a counter that exists is
\* one of the events' counters and is at least 1 (its event has occurred)
C37_CountersCumulative ==
    /\ [][/\ DOMAIN statistics \subseteq DOMAIN statistics'
          /\ \A n \in DOMAIN statistics' :
                 \/ Stat(statistics', n) = Stat(statistics, n)
                 \/ Stat(statistics', n) >= Stat(statistics, n) + 1
         ]_vars
    /\ [](\A n \in DOMAIN statistics : n \in EventNames /\ statistics[n] >= 1)

\* a counter has been raised twice, and queried
C37_Witness ==
    /\ call.op = "get_grid_stats"
    /\ call.ret = "returned"
    /\ \E n \in DOMAIN statistics :
           /\ statistics[n] >= 2
           /\ n \in DOMAIN call.statPre
           /\ call.statPre[n] >= 2

\* ---------------------------------------------------------------- C38
\* the number of entries of species t in the lists of grid g
Population(g, e, t) ==
    Cardinality({q \in UNION {{<<p, i>> : i \in DOMAIN g[p]} : p \in DOMAIN g} :
                    e[g[q[1]][q[2]]].type = t})

\* the rise of a counter over the tick that ended last
Rise(name) == Stat(statistics, name) - Stat(tickStart.stat, name)

\* the rise of the '<species>_reproduced' counter (Plants and Predators
\* have none)
Reproduced(t) ==
    IF t \in {"Herbivore", "Omnivore"} THEN Rise(ReproducedStat(t)) ELSE 0

\* the rise of all '<species>_eaten_by_*' counters
EatenBy(t) ==
    CASE t = "Plant" -> Rise(EatenStat("Plant", "Herbivore"))
                            + Rise(EatenStat("Plant", "Omnivore"))
      [] t = "Herbivore" -> Rise(EatenStat("Herbivore", "Predator"))
                                + Rise(EatenStat("Herbivore", "Omnivore"))
      [] t = "Predator" -> Rise(EatenStat("Predator", "Omnivore"))
      [] OTHER -> 0

\* no Omnivore was ever created
ThreeSpecies == \A id \in DOMAIN ent : ent[id].type # "Omnivore"

MatingTurn ==
    /\ TurnDone
    /\ ent[todo[1].id].type \in {"Herbivore", "Omnivore"}
    /\ lastTurn'.keep

\* the entities of the species of this turn's entity, other than itself,
\* in the cell it goes to, as its update() finds them
OthersOfSpecies ==
    {i \in SeqToSet(Seen[lastTurn'.pos]) :
        ent[i].type = ent[todo[1].id].type /\ i # todo[1].id}

Watchers ==
    {k \in DOMAIN alerts.list : alerts.list[k].kind = "PredatorEatsHerbivoreAlert"}

\* the 'herbivore_eaten_by_predator' counter
HerbivoresEaten(st) == Stat(st, "herbivore_eaten_by_predator")

\* what get_message of a PredatorEatsHerbivoreAlert returned, among the
\* messages check_alerts collected: <<kind, 1>> is the text 'A Predator
\* ate a Herbivore', <<kind, n>> the text 'Predators ate n Herbivores'
Reports(messages) ==
    SelectSeq(messages, LAMBDA msg : msg[1] = "PredatorEatsHerbivoreAlert")

\* a check_alerts call consults the alert: its get_message returns, with a
\* message that tells the rise of the counter since the call before (since
\* the construction, for the first call) if it rose and with None if not,
\* and it is the only step that changes what the alert remembers
ReportsTheRise ==
    [][\A k \in Watchers :
          IF call' # call /\ call'.op = "check_alerts"
          THEN LET rise == HerbivoresEaten(statistics)
                               - alerts.list[k].previous_herbivores_eaten
               IN  /\ err' # "IndexError"
                   /\ Reports(call'.value)
                          = IF rise > 0
                            THEN <<(<<"PredatorEatsHerbivoreAlert", rise>>)>>
                            ELSE <<>>
                   /\ alerts'.list[k].previous_herbivores_eaten
                          = HerbivoresEaten(statistics)
          ELSE alerts'.list[k] = alerts.list[k]
      ]_vars

\* the Herbivores a Predator consumes in this step
EatenNow ==
    IF TurnDone /\ ent[todo[1].id].type = "Predator"
    THEN {id \in Consumed(lastTurn'.meal) : ent[id].type = "Herbivore"}
    ELSE {}

\* the counter rises in a step by the number of Herbivores a Predator
\* consumes in it, none of which was consumed or had died before
CounterCountsMeals ==
    [][/\ HerbivoresEaten(statistics') - HerbivoresEaten(statistics)
              = Cardinality(EatenNow)
       /\ EatenNow \cap removed = {}
      ]_vars

\* C40: PredatorEatsHerbivoreAlert.get_message returns a message exactly
\* when 'herbivore_eaten_by_predator' has risen since the previous call,
\* the message tells that rise, otherwise it returns None; and as the
\* counter rises by one for every Herbivore a Predator consumes, every
\* consumed Herbivore is reported by exactly one call
C40_EachMealReportedOnce ==
    /\ [](alerts.checks = 0 =>
              \A k \in Watchers : alerts.list[k].previous_herbivores_eaten = 0)
    /\ ReportsTheRise
    /\ CounterCountsMeals

====
